---- MODULE Spec2Model ----
\* Verification model of the land-use pipeline of P2G_v2:
\*   - the Overpass fetch client (cache, retry, backoff, endpoint rotation),
\*   - the debounced, abortable resolution cycle of the LandUseMap effect,
\*   - clipping of the fetched parcels to the AOI and the area-proportional
\*     allocation of the total production,
\*   - the ingestion of the CSV rows (numeric parsing, header matching, site
\*     records) and the construction of the AOI union from the site circles.
EXTENDS Integers, Sequences, FiniteSets, TLC

\* ---------------------------------------------------------------------------
\* Bounds of the model
\* ---------------------------------------------------------------------------
\* number of timer callbacks (resolution cycles) that may start in one run of
\* the program; as many may be in flight at once
MaxCycles == 2
\* length of the texts toNum is tried on, beside the examples of the formats
MaxRawLen == 3
\* number of rows of a parsed CSV
MaxBatch == 2
\* number of CSV downloads that may be in flight at once
MaxLoads == 2
\* number of sites of a location group
MaxSites == 3

\* ---------------------------------------------------------------------------
\* Program constants
\* ---------------------------------------------------------------------------
\* LandUseMap.jsx:49-53, the endpoint list (its entries named by index)
OVERPASS_ENDPOINTS == <<"overpass-api.de", "overpass.kumi.systems", "z.overpass-api.de">>
\* LandUseMap.jsx:60
maxAttempts == 5
\* LandUseMap.jsx:74, backoff base, cap and jitter range (ms)
BackoffBase == 2000
BackoffCap == 12000
JitterRange == 500
\* Math.random() * 500 lies in [0, 500): the two extremes of the range
JitterChoices == {0, JitterRange - 1}

\* a totalProduction that is not a finite number (NaN, Infinity, undefined)
NotFinite == 0 - 1
IsFinite(x) == x # NotFinite

RECURSIVE Pow2(_)
Pow2(n) == IF n = 0 THEN 1 ELSE 2 * Pow2(n - 1)
Min(a, b) == IF a < b THEN a ELSE b
\* the sequences of at most k elements of S
SeqsUpTo(S, k) == UNION {[1..n -> S] : n \in 0..k}

\* (mutant) the delay is not capped
Backoff_NoCap(attempt, jitter) == BackoffBase * Pow2(attempt) + jitter
\* LandUseMap.jsx:74, Math.min(2000 * 2 ** attempt, 12000) + Math.random() * 500
Backoff(attempt, jitter) == Min(BackoffBase * Pow2(attempt), BackoffCap) + jitter

\* (mutant) the index is clamped to the last endpoint instead of wrapping
EndpointOf_Clamped(endpointIdx) == Min(endpointIdx, Len(OVERPASS_ENDPOINTS) - 1)
\* LandUseMap.jsx:63, OVERPASS_ENDPOINTS[endpointIdx % OVERPASS_ENDPOINTS.length]
\* (0-based index of the endpoint used)
EndpointOf(endpointIdx) == endpointIdx % Len(OVERPASS_ENDPOINTS)

\* ---------------------------------------------------------------------------
\* Geometry: regions (AOI) and parcels
\* ---------------------------------------------------------------------------
\* The turf operations are external; each parcel carries the answers the
\* geometry library gives for it against the AOI of the model ("throws" is
\* a topology exception).
\*   bi      booleanIntersects(tf, region)          "yes" | "no" | "throws"
\*   inter   intersect(tf, region)                  "piece" | "null" | "throws"
\*   ctr     centroid(tf) in region                 "in" | "out" | "throws"
\*   cInter  intersect(tf, circle i)                "piece" | "null" | "throws"
\*   cUnion  union(merged, part)                    "ok" | "null" | "throws"
\*   cCtr    centroid(tf) in circle i               "in" | "out" | "throws"
\*   areaOk  area(geometry) returns (FALSE: it throws on a malformed geometry)
NoRegion == [type |-> "none", features |-> <<>>, bbox |-> 0]
PolyRegion == [type |-> "Polygon", features |-> <<>>, bbox |-> 1]
FCRegion == [type |-> "FeatureCollection", features |-> <<1, 2>>, bbox |-> 2]
Regions == {NoRegion, PolyRegion, FCRegion}

Parcel(lu, gt, a, ok, bi, it, ia, ct, ci, ca, cu, co, cc) ==
  [landuse |-> lu, gtype |-> gt, area |-> a, areaOk |-> ok,
   bi |-> bi, inter |-> it, interArea |-> ia, ctr |-> ct,
   cInter |-> ci, cArea |-> ca, cUnion |-> cu, cOverlap |-> co, cCtr |-> cc]

\* farmland polygon cut by the AOI: piece of area 1; pieces 1 and 2 in the circles
pCut == Parcel("farmland", "Polygon", 4, TRUE, "yes", "piece", 1, "in",
               <<"piece", "piece">>, <<1, 2>>, "ok", 0, <<"in", "out">>)
\* orchard multipolygon whose intersection throws, centroid inside: kept whole (area 3)
pWhole == Parcel("orchard", "MultiPolygon", 3, TRUE, "yes", "throws", 0, "in",
                 <<"throws", "piece">>, <<0, 3>>, "ok", 0, <<"out", "in">>)
\* feature without a landuse tag
pUntagged == Parcel("", "Polygon", 5, TRUE, "yes", "piece", 5, "in",
                    <<"piece", "null">>, <<5, 0>>, "ok", 0, <<"in", "out">>)
\* unclosed way: a LineString, every polygon operation throws, centroid inside
pLine == Parcel("farmland", "LineString", 0, TRUE, "throws", "throws", 0, "in",
                <<"throws", "throws">>, <<0, 0>>, "ok", 0, <<"out", "in">>)
\* degenerate sliver: the intersection is a polygon of area 0
pSliver == Parcel("orchard", "Polygon", 2, TRUE, "yes", "piece", 0, "out",
                  <<"piece", "null">>, <<0, 0>>, "ok", 0, <<"out", "out">>)
\* polygon outside the AOI: no intersection, centroid outside
pOutside == Parcel("farmland", "Polygon", 6, TRUE, "no", "null", 0, "out",
                   <<"null", "null">>, <<0, 0>>, "ok", 0, <<"out", "out">>)
\* polygon whose circle pieces cannot be unioned; centroid in the second circle
pNoUnion == Parcel("orchard", "Polygon", 7, TRUE, "yes", "null", 0, "out",
                   <<"piece", "piece">>, <<2, 2>>, "throws", 0, <<"out", "in">>)
\* malformed geometry: area() throws on whatever is kept of it
pBroken == Parcel("farmland", "Polygon", 1, FALSE, "yes", "piece", 1, "in",
                  <<"piece", "null">>, <<1, 0>>, "ok", 0, <<"in", "out">>)
\* a landuse value that is no key of the toggle object
pOther == Parcel("meadow", "Polygon", 2, TRUE, "yes", "piece", 2, "in",
                 <<"piece", "null">>, <<2, 0>>, "ok", 0, <<"in", "out">>)

\* the feature collections the service may answer with (gj.features)
GjChoices == { <<pUntagged, pCut, pLine, pSliver, pWhole, pOutside, pOther, pNoUnion>>,
               <<pOutside, pLine, pSliver>>,
               <<pCut, pBroken, pWhole>> }

\* App.jsx:14-20, the toggle keys (two of the five categories are modelled)
landuseTypes == {"farmland", "orchard"}
\* (mutant) the toggle of the category is not looked at
ToggleOn_Ignored(toggles, lu) == lu = lu
\* LandUseMap.jsx:211, landuseToggles[sourceLanduse]: undefined (falsy) for a
\* key that is absent
ToggleOn(toggles, lu) == lu \in DOMAIN toggles /\ toggles[lu]

\* a geometry produced by clipping: its type, its area, whether area() returns
Geom(gt, a, ok, src) == [gtype |-> gt, area |-> a, areaOk |-> ok, src |-> src]
NoGeom == Geom("null", 0, TRUE, "null")
Whole(p) == Geom(p.gtype, p.area, p.areaOk, "whole")

\* (mutant) a throwing intersection ends the loop over the circles
RECURSIVE CircleParts_StopAtThrow(_, _, _)
CircleParts_StopAtThrow(p, circles, i) ==
  IF i > Len(circles) \/ p.cInter[circles[i]] = "throws" THEN <<>>
  ELSE IF p.cInter[circles[i]] = "piece"
         THEN <<Geom("Polygon", p.cArea[circles[i]], p.areaOk, "part")>>
                \o CircleParts_StopAtThrow(p, circles, i + 1)
         ELSE CircleParts_StopAtThrow(p, circles, i + 1)
\* LandUseMap.jsx:160-166, the non-empty intersections with the circles, in order
RECURSIVE CircleParts(_, _, _)
CircleParts(p, circles, i) ==
  IF i > Len(circles) THEN <<>>
  ELSE LET c == circles[i]
           rest == CircleParts(p, circles, i + 1)
       IN IF p.cInter[c] = "piece"
            THEN <<Geom("Polygon", p.cArea[c], p.areaOk, "part")>> \o rest
            ELSE rest

\* LandUseMap.jsx:170-175, merged = parts[0]; u = union(merged, parts[i]); if (u) merged = u
RECURSIVE MergeParts(_, _, _, _)
MergeParts(p, parts, i, merged) ==
  IF i > Len(parts) THEN merged
  ELSE IF p.cUnion = "ok"
         THEN MergeParts(p, parts, i + 1,
                Geom("Polygon", merged.area + parts[i].area - p.cOverlap, p.areaOk, "merged"))
         ELSE MergeParts(p, parts, i + 1, merged)

\* LandUseMap.jsx:179-185, centroid in any circle => the whole parcel
RECURSIVE CentroidInAny(_, _, _)
CentroidInAny(p, circles, i) ==
  IF i > Len(circles) THEN NoGeom
  ELSE LET c == circles[i]
       IN CASE p.cCtr[c] = "in" -> Whole(p)
            [] p.cCtr[c] = "throws" -> NoGeom
            [] OTHER -> CentroidInAny(p, circles, i + 1)

\* (mutant) a parcel without intersection is kept whole, no centroid test
clipOne_NoCentroidTest(p, region) ==
  IF region.type = "FeatureCollection"
    THEN LET parts == CircleParts(p, region.features, 1)
         IN IF Len(parts) = 1 THEN parts[1]
            ELSE IF Len(parts) > 1 /\ p.cUnion # "throws"
                   THEN MergeParts(p, parts, 2, parts[1])
                   ELSE CentroidInAny(p, region.features, 1)
    ELSE IF p.bi = "yes" /\ p.inter = "piece"
           THEN Geom("Polygon", p.interArea, p.areaOk, "inter")
           ELSE Whole(p)
\* LandUseMap.jsx:158-200
clipOne(p, region) ==
  IF region.type = "FeatureCollection"
    THEN LET parts == CircleParts(p, region.features, 1)
         IN IF Len(parts) = 1 THEN parts[1]
            ELSE IF Len(parts) > 1 /\ p.cUnion # "throws"
                   THEN MergeParts(p, parts, 2, parts[1])
                   ELSE CentroidInAny(p, region.features, 1)
    ELSE IF p.bi = "yes" /\ p.inter = "piece"
           THEN Geom("Polygon", p.interArea, p.areaOk, "inter")
           ELSE IF p.ctr = "in" THEN Whole(p) ELSE NoGeom


\* LandUseMap.jsx:202-227, the clip loop over gj.features.  The result holds
\* the kept parcels, the sum of their areas, and whether the loop threw.
RECURSIVE ClipLoop(_, _, _, _, _)
ClipLoop(feats, toggles, region, i, acc) ==
  IF i > Len(feats) \/ acc.threw THEN acc
  ELSE LET f == feats[i]
           inter == clipOne(f, region)
       IN IF f.landuse = "" \/ ~ToggleOn(toggles, f.landuse)
            THEN ClipLoop(feats, toggles, region, i + 1, acc)
          ELSE IF inter = NoGeom
            THEN ClipLoop(feats, toggles, region, i + 1, acc)
          ELSE IF inter.gtype # "Polygon" /\ inter.gtype # "MultiPolygon"
            THEN ClipLoop(feats, toggles, region, i + 1, acc)
          ELSE IF ~inter.areaOk
            THEN [acc EXCEPT !.threw = TRUE]
          ELSE IF inter.area > 0
            THEN ClipLoop(feats, toggles, region, i + 1,
                   [clipped |-> Append(acc.clipped,
                        [landuse |-> f.landuse, gtype |-> inter.gtype,
                         area |-> inter.area, src |-> inter.src]),
                    totalArea |-> acc.totalArea + inter.area,
                    threw |-> FALSE])
          ELSE ClipLoop(feats, toggles, region, i + 1, acc)

\* (mutant) the total is split by the number of parcels, not by area
Allocate_EqualShares(clipped, totalArea, totalProduction) ==
  LET totalFertLiters == IF IsFinite(totalProduction) THEN totalProduction ELSE 0
  IN [k \in 1..Len(clipped) |->
        [landuse |-> clipped[k].landuse, gtype |-> clipped[k].gtype,
         area |-> clipped[k].area, src |-> clipped[k].src,
         fertilizer |-> IF totalArea > 0
                          THEN [num |-> totalFertLiters, den |-> Len(clipped)]
                          ELSE [num |-> 0, den |-> 1]]]
\* LandUseMap.jsx:229-233.  fertilizer = (area / totalArea) * totalFertLiters
\* is kept as the exact fraction num / den.
Allocate(clipped, totalArea, totalProduction) ==
  LET totalFertLiters == IF IsFinite(totalProduction) THEN totalProduction ELSE 0
  IN [k \in 1..Len(clipped) |->
        [landuse |-> clipped[k].landuse, gtype |-> clipped[k].gtype,
         area |-> clipped[k].area, src |-> clipped[k].src,
         fertilizer |-> IF totalArea > 0
                          THEN [num |-> clipped[k].area * totalFertLiters, den |-> totalArea]
                          ELSE [num |-> 0, den |-> 1]]]

\* LandUseMap.jsx:155-235, what the cycle computes from a fetched collection:
\* the argument of onDataUpdate, or a throw out of the clip loop
ClipAndAllocate(feats, inputs) ==
  LET r == ClipLoop(feats, inputs.landuseToggles, inputs.unionPolygon, 1,
                    [clipped |-> <<>>, totalArea |-> 0, threw |-> FALSE])
  IN [threw |-> r.threw,
      out |-> IF r.threw THEN <<>>
              ELSE Allocate(r.clipped, r.totalArea, inputs.totalProduction)]

\* LandUseMap.jsx:98-107 and 143-144: the cache key is the rounded bounding
\* box, the tag list (fixed) and the union signature (type, count, bbox)
unionSig(region) ==
  <<region.type,
    IF region.type = "FeatureCollection" THEN Len(region.features) ELSE 1,
    region.bbox>>
CacheKey(region) == <<region.bbox, unionSig(region)>>


\* ---------------------------------------------------------------------------
\* Inputs of the consumer (props of LandUseMap that the effect depends on)
\* ---------------------------------------------------------------------------
Props(c, r, u, t, tp) ==
  [center |-> c, searchRadiusKm |-> r, unionPolygon |-> u,
   landuseToggles |-> t, totalProduction |-> tp]

AllOn == [lu \in landuseTypes |-> TRUE]
OrchardOff == [lu \in landuseTypes |-> lu # "orchard"]

\* App.jsx:28-43, the props before any row is loaded: no center, no union
InitProps == Props(FALSE, TRUE, NoRegion, AllOn, 0)
\* App.jsx:115-123, showWtp switched off: searchRadiusKm and unionPolygon null
HiddenProps == Props(TRUE, FALSE, NoRegion, AllOn, 0)

PropsChoices ==
  { InitProps, HiddenProps,
    Props(TRUE, TRUE, PolyRegion, AllOn, 400),
    Props(TRUE, TRUE, PolyRegion, OrchardOff, NotFinite),
    Props(TRUE, TRUE, FCRegion, AllOn, 400) }

\* ---------------------------------------------------------------------------
\* State
\* ---------------------------------------------------------------------------
VARIABLES
  props,        \* current props of the mounted LandUseMap
  timers,       \* pending debounce timers: <<[inputs, cur]>>, cur = the timer
                \* the cleanup of the latest effect run clears
  abortRef,     \* abortRef.current: the slot of the cycle whose controller it
                \* holds, 0 = null
  cycles,       \* the timer callbacks in flight, by slot
  overpassCache,\* the module-level Map: <<[key, value]>> in insertion order
  started,      \* number of timer callbacks started so far
  ended,        \* the timer callbacks that ended in the latest step, in order
  lastWait,     \* the backoff (ms) computed in the latest step, 0 if none
  numCall,      \* one call of toNum: its argument and, once made, its result
  rowCall,      \* one call of readWtpRow: the row, the fallback radius, the result
  aoiCall,      \* one run of the useMemo that builds the AOI from the rows
  clipCall,     \* one call of clipOne: the parcel, the region, the result
  locGroup,     \* state of useLocationGroup: csvUrl, rows, error, loading
  pubBuildings, \* state of usePublicBuildings: csvUrl, points, error
  loads         \* the Papa.parse downloads in flight

fetchVars == <<props, timers, abortRef, cycles, overpassCache, started, ended, lastWait>>
callVars == <<numCall, rowCall, aoiCall, clipCall>>
hookVars == <<locGroup, pubBuildings, loads>>
vars == <<fetchVars, callVars, hookVars>>

Slots == 1..MaxCycles

\* a geometry object: obj tells apart the objects stored under one key
NoObj == [obj |-> 0, features |-> <<>>]

\* pc of a cycle: "fetching" (await fetch), "reading" (await resp.json()),
\* "sleeping" (await sleep(backoff)); "idle" marks a free slot.
\*   aborted  controller.signal.aborted
\*   orphan   the component that started the cycle has been unmounted
\*   sent     endpoints (0-based) of the requests sent so far
\*   waits    number of backoff waits begun (the wait itself is lastWait)
\*   hadKey   the key was in the cache when the call was made
Idle ==
  [pc |-> "idle", inputs |-> InitProps, key |-> <<>>, attempt |-> 0,
   endpointIdx |-> 0, aborted |-> FALSE, orphan |-> FALSE, sent |-> <<>>,
   waits |-> 0, hadKey |-> FALSE]

\* no call of a pure function is being looked at
NoCall == [done |-> FALSE]
CallsIdle ==
  /\ numCall = NoCall
  /\ rowCall = NoCall
  /\ aoiCall = NoCall
  /\ clipCall = NoCall

\* useLocationsData.js:158-160 and 357-358, the useState initial values; the
\* hooks are called with no csvUrl yet.  Two fields record the history of a
\* hook: batch, the res.data of the latest complete callback, and last, the
\* latest thing that happened ("none" | "request" | "complete" | "error").
HooksInit ==
  /\ locGroup = [csvUrl |-> "", rows |-> <<>>, error |-> "", loading |-> FALSE,
                 batch |-> <<>>, last |-> "none"]
  /\ pubBuildings = [csvUrl |-> "", points |-> <<>>, error |-> "",
                     batch |-> <<>>, last |-> "none"]
  /\ loads = <<>>

\* the LandUseMap consumer right after it is mounted, the cache empty
FetchInit ==
  /\ props = InitProps
  /\ timers = <<>>
  /\ abortRef = 0
  /\ cycles = [s \in Slots |-> Idle]
  /\ overpassCache = <<>>
  /\ started = 0
  /\ ended = <<>>
  /\ lastWait = 0

Init == FetchInit /\ CallsIdle /\ HooksInit

\* (mutant) the lookup never finds the key
CacheHas_NeverHits(key) == key # key
\* overpassCache.has(key)
CacheHas(key) == \E i \in 1..Len(overpassCache) : overpassCache[i].key = key
\* overpassCache.get(key)
CacheGet(key) ==
  LET i == CHOOSE j \in 1..Len(overpassCache) : overpassCache[j].key = key
  IN overpassCache[i].value
\* overpassCache.set(key, gj) with the object osmtogeojson has just created:
\* a Map replaces the value of a key that is present
CacheSet(key, feats) ==
  IF \E i \in 1..Len(overpassCache) : overpassCache[i].key = key
    THEN [i \in 1..Len(overpassCache) |->
            IF overpassCache[i].key = key
              THEN [key |-> key,
                    value |-> [obj |-> overpassCache[i].value.obj + 1, features |-> feats]]
              ELSE overpassCache[i]]
    ELSE Append(overpassCache, [key |-> key, value |-> [obj |-> 1, features |-> feats]])

\* LandUseMap.jsx:120, the effect returns early (and returns no cleanup)
EffectSkips(p) == ~p.center \/ ~p.searchRadiusKm \/ p.unionPolygon = NoRegion

\* (mutant) the effect returns no cleanup: the previous timer stays pending
Cleanup_Missing(ts) == ts
\* LandUseMap.jsx:243, clearTimeout(timer) of the previous effect run
Cleanup(ts) ==
  LET keep(t) == ~t.cur
  IN SelectSeq(ts, keep)

\* LandUseMap.jsx:146-147 and 241, setTimeout(..., debounceMs) of this effect run
Schedule(ts, p) ==
  [i \in 1..Len(ts) |-> [ts[i] EXCEPT !.cur = FALSE]] \o <<[inputs |-> p, cur |-> TRUE]>>

\* LandUseMap.jsx:119-244, React runs the previous cleanup, then the effect
RunEffect(ts, p) ==
  IF EffectSkips(p)
    THEN [i \in 1..Len(Cleanup(ts)) |-> [Cleanup(ts)[i] EXCEPT !.cur = FALSE]]
    ELSE Schedule(Cleanup(ts), p)


\* ---------------------------------------------------------------------------
\* The end of a timer callback (LandUseMap.jsx:153-240)
\* ---------------------------------------------------------------------------
\* The record of a callback that ended:
\*   result     "hit" | "returned" | "failed" (retries exhausted) | "aborted"
\*              (AbortError rethrown)
\*   gj         what fetchOverpassWithBackoff returned, NoObj if it threw
\*   delivered  "data" (onDataUpdate(clipped)) | "empty" (onDataUpdate([])) |
\*              "none" (onDataUpdate not called)
\*   out        the argument of onDataUpdate
\*   stale      the cycle's inputs were not the props current at the end
\*   superseded the cycle's signal was aborted or a newer timer was pending
EndRec(c, result, gj, delivered, out, pending) ==
  [inputs |-> c.inputs, key |-> c.key, attempt |-> c.attempt,
   endpointIdx |-> c.endpointIdx, aborted |-> c.aborted, orphan |-> c.orphan,
   sent |-> c.sent, waits |-> c.waits, hadKey |-> c.hadKey,
   result |-> result, gj |-> gj, delivered |-> delivered, out |-> out,
   stale |-> c.inputs # props, superseded |-> (c.aborted \/ pending)]

\* LandUseMap.jsx:153-235 and 236-240: fetchOverpassWithBackoff returned gj;
\* clip, allocate, onDataUpdate(clipped); a throw out of the clip loop is no
\* AbortError and gives onDataUpdate([])
EndOnReturn(c, result, gj, pending) ==
  LET ca == ClipAndAllocate(gj.features, c.inputs)
  IN EndRec(c, result, gj, IF ca.threw THEN "empty" ELSE "data", ca.out, pending)

\* LandUseMap.jsx:236-240, the catch of the timer callback:
\* an AbortError returns silently, any other error gives onDataUpdate([])
EndOnThrow(c, errName, pending) ==
  IF errName = "AbortError"
    THEN EndRec(c, "aborted", NoObj, "none", <<>>, pending)
    ELSE EndRec(c, "failed", NoObj, "empty", <<>>, pending)

\* ---------------------------------------------------------------------------
\* Actions
\* ---------------------------------------------------------------------------
\* The props change (or are recreated with equal values): React runs the
\* cleanup of the previous effect run and the effect again.
ChangeInputs(p) ==
  /\ props' = p
  /\ timers' = RunEffect(timers, p)
  /\ ended' = <<>>
  /\ lastWait' = 0
  /\ UNCHANGED <<abortRef, cycles, overpassCache, started, callVars, hookVars>>

\* The component is unmounted (route change) and mounted again: the cleanup
\* clears the pending timer; the new instance has a fresh abortRef and the
\* initial props.  Nothing aborts the fetch of the old instance.
Remount ==
  /\ props' = InitProps
  /\ timers' = RunEffect(timers, InitProps)
  /\ abortRef' = 0
  /\ cycles' = [s \in Slots |->
                  IF cycles[s].pc = "idle" THEN cycles[s]
                  ELSE [cycles[s] EXCEPT !.orphan = TRUE]]
  /\ ended' = <<>>
  /\ lastWait' = 0
  /\ UNCHANGED <<overpassCache, started, callVars, hookVars>>

\* abortRef.current.abort(), LandUseMap.jsx:148: a request or body read in
\* flight rejects with an AbortError, which the catch at line 73 rethrows
AbortEnds(cs) == abortRef # 0 /\ cs[abortRef].pc \in {"fetching", "reading"}
\* (mutant) the previous controller is not aborted
AbortCurrent_Missing(cs) == cs
AbortCurrent(cs) ==
  IF abortRef = 0 \/ cs[abortRef].pc = "idle" THEN cs
  ELSE IF AbortEnds(cs) THEN [cs EXCEPT ![abortRef] = Idle]
  ELSE [cs EXCEPT ![abortRef].aborted = TRUE]

FreeSlots(cs) == {s \in Slots : cs[s].pc = "idle"}
FirstFree(cs) == CHOOSE s \in FreeSlots(cs) : \A r \in FreeSlots(cs) : s <= r

\* LandUseMap.jsx:147-153 with 58-66: the debounce timer fires.  The previous
\* controller is aborted, a new one stored, fetchOverpassWithBackoff called:
\* on a cache hit the callback runs to its end in the same task, on a miss
\* the first request is sent.
TimerFire(i) ==
  /\ i \in 1..Len(timers)
  /\ started < MaxCycles
  /\ started' = started + 1
  /\ lastWait' = 0
  /\ LET t == timers[i]
         rest == [j \in 1..(Len(timers) - 1) |-> IF j < i THEN timers[j] ELSE timers[j + 1]]
         cs == AbortCurrent(cycles)
         endedOld == IF AbortEnds(cycles)
                       THEN <<EndOnThrow([cycles[abortRef] EXCEPT !.aborted = TRUE],
                                         "AbortError", rest # <<>>)>>
                       ELSE <<>>
         key == CacheKey(t.inputs.unionPolygon)
         c == [Idle EXCEPT !.pc = "fetching", !.inputs = t.inputs, !.key = key,
                           !.hadKey = (\E e \in 1..Len(overpassCache) :
                                          overpassCache[e].key = key)]
     IN /\ FreeSlots(cs) # {}
        /\ timers' = rest
        /\ abortRef' = FirstFree(cs)
        /\ IF CacheHas(key)
             THEN /\ cycles' = cs
                  /\ ended' = endedOld \o <<EndOnReturn(c, "hit", CacheGet(key), rest # <<>>)>>
             ELSE /\ cycles' = [cs EXCEPT ![FirstFree(cs)] =
                                  [c EXCEPT !.sent = <<EndpointOf(c.endpointIdx)>>]]
                  /\ ended' = endedOld
  /\ UNCHANGED <<props, overpassCache, callVars, hookVars>>

\* (mutant) the last failed attempt is not followed by a wait
AfterFailure_NoLastWait(c) ==
  [c EXCEPT !.pc = "sleeping",
            !.endpointIdx = c.endpointIdx + 1,
            !.waits = IF c.attempt + 1 < maxAttempts THEN c.waits + 1 ELSE c.waits]
\* (mutant) the endpoint is not rotated after a failure
AfterFailure_NoRotation(c) ==
  [c EXCEPT !.pc = "sleeping", !.waits = c.waits + 1]
\* LandUseMap.jsx:72-77, the catch of one attempt when the signal is not aborted
AfterFailure(c) ==
  [c EXCEPT !.pc = "sleeping",
            !.endpointIdx = c.endpointIdx + 1,
            !.waits = c.waits + 1]

\* LandUseMap.jsx:66, the response arrives with an ok status
FetchOk(s) ==
  /\ cycles[s].pc = "fetching" /\ ~cycles[s].aborted
  /\ cycles' = [cycles EXCEPT ![s].pc = "reading"]
  /\ ended' = <<>>
  /\ lastWait' = 0
  /\ UNCHANGED <<props, timers, abortRef, overpassCache, started, callVars, hookVars>>

\* LandUseMap.jsx:66-67 and 72-76: a non-ok status, or fetch rejects with a
\* transport error; resp.json() rejecting (malformed body) takes the same path
AttemptFails(s, jitter) ==
  /\ cycles[s].pc \in {"fetching", "reading"} /\ ~cycles[s].aborted
  /\ cycles' = [cycles EXCEPT ![s] = AfterFailure(cycles[s])]
  /\ lastWait' = Backoff(cycles[s].attempt, jitter)
  /\ ended' = <<>>
  /\ UNCHANGED <<props, timers, abortRef, overpassCache, started, callVars, hookVars>>

\* LandUseMap.jsx:68-71 and 153-235: the body is read and converted, the
\* collection cached and returned; the callback clips, allocates and calls
\* onDataUpdate
ReadOk(s, feats) ==
  /\ cycles[s].pc = "reading" /\ ~cycles[s].aborted
  /\ overpassCache' = CacheSet(cycles[s].key, feats)
  /\ LET c == cycles[s]
         i == CHOOSE j \in 1..Len(overpassCache') : overpassCache'[j].key = c.key
     IN ended' = <<EndOnReturn(c, "returned", overpassCache'[i].value, timers # <<>>)>>
  /\ cycles' = [cycles EXCEPT ![s] = Idle]
  /\ lastWait' = 0
  /\ UNCHANGED <<props, timers, abortRef, started, callVars, hookVars>>

\* (mutant) the loop runs once more: attempt <= maxAttempts
AttemptsLeft_OffByOne(attempt) == attempt <= maxAttempts
\* LandUseMap.jsx:62, the loop condition attempt < maxAttempts
AttemptsLeft(attempt) == attempt < maxAttempts

\* LandUseMap.jsx:76 then 62-66 or 79: the sleep ends, attempt++.
\*  - attempts left, signal not aborted: the next request is sent;
\*  - attempts left, signal aborted: fetch rejects at once with an AbortError
\*    (nothing is sent), which the catch rethrows;
\*  - no attempt left: throw new Error("Overpass failed after multiple
\*    retries"), whatever the signal says; the callback's catch sees a plain
\*    Error and calls onDataUpdate([]).
SleepDone(s) ==
  /\ cycles[s].pc = "sleeping"
  /\ lastWait' = 0
  /\ LET c == [cycles[s] EXCEPT !.attempt = cycles[s].attempt + 1]
     IN IF AttemptsLeft(c.attempt)
          THEN IF c.aborted
                 THEN /\ cycles' = [cycles EXCEPT ![s] = Idle]
                      /\ ended' = <<EndOnThrow(c, "AbortError", timers # <<>>)>>
                 ELSE /\ cycles' = [cycles EXCEPT ![s] =
                                      [c EXCEPT !.pc = "fetching",
                                                !.sent = Append(c.sent, EndpointOf(c.endpointIdx))]]
                      /\ ended' = <<>>
          ELSE /\ cycles' = [cycles EXCEPT ![s] = Idle]
               /\ ended' = <<EndOnThrow(c, "Error", timers # <<>>)>>
  /\ UNCHANGED <<props, timers, abortRef, overpassCache, started, callVars, hookVars>>

\* One mounted consumer: its props change, its timers fire, its cycles run.
Next ==
  \/ \E p \in PropsChoices : ChangeInputs(p)
  \/ \E i \in Slots : TimerFire(i)
  \/ \E s \in Slots : FetchOk(s)
  \/ \E s \in Slots, j \in JitterChoices : AttemptFails(s, j)
  \/ \E s \in Slots, feats \in GjChoices : ReadOk(s, feats)
  \/ \E s \in Slots : SleepDone(s)

Spec == Init /\ [][Next]_vars

\* The same program with the component unmounted and mounted again while
\* cycles are in flight; the environment is kept small: one AOI, one answer
\* of the service, no jitter.
MountProps == {InitProps, Props(TRUE, TRUE, PolyRegion, AllOn, 400)}
MountGj == <<pUntagged, pCut, pLine, pSliver, pWhole, pOutside, pOther, pNoUnion>>
MountNext ==
  \/ \E p \in MountProps : ChangeInputs(p)
  \/ Remount
  \/ \E i \in Slots : TimerFire(i)
  \/ \E s \in Slots : FetchOk(s)
  \/ \E s \in Slots : AttemptFails(s, 0)
  \/ \E s \in Slots : ReadOk(s, MountGj)
  \/ \E s \in Slots : SleepDone(s)

MountSpec == Init /\ [][MountNext]_vars


\* The event loop runs every continuation that is ready, timers expire and
\* the network answers or fails every request: each cycle in flight takes
\* its next step.
CycleStep(s) ==
  \/ FetchOk(s)
  \/ AttemptFails(s, 0)
  \/ ReadOk(s, MountGj)
  \/ SleepDone(s)

FairSpec == MountSpec /\ \A s \in Slots : WF_vars(CycleStep(s))

\* ---------------------------------------------------------------------------
\* Numeric parsing (useLocationsData.js:12-24)
\* ---------------------------------------------------------------------------
\* A text is a sequence of one-character strings.  A number is the exact
\* decimal fraction n / d with d a power of ten; d = 0 marks null.
Num(n, d) == [n |-> n, d |-> d]
NullNum == Num(0, 0)
IsNull(x) == x.d = 0
\* the same fraction without trailing zeros: 12.50 is 12.5
RECURSIVE Norm(_)
Norm(x) == IF x.d > 1 /\ x.n % 10 = 0 THEN Norm(Num(x.n \div 10, x.d \div 10)) ELSE x
NumEq(a, b) == ~IsNull(a) /\ ~IsNull(b) /\ Norm(a) = Norm(b)
Abs(i) == IF i < 0 THEN 0 - i ELSE i
\* Math.abs(x) <= k
AbsLeq(x, k) == Abs(x.n) <= k * x.d
\* x > 0
Positive(x) == ~IsNull(x) /\ x.n > 0

DigitChars == <<"0", "1", "2", "3", "4", "5", "6", "7", "8", "9">>
IsDigit(c) == \E i \in 1..Len(DigitChars) : DigitChars[i] = c
DigitVal(c) == (CHOOSE i \in 1..Len(DigitChars) : DigitChars[i] = c) - 1

RECURSIVE Pow10(_)
Pow10(k) == IF k = 0 THEN 1 ELSE 10 * Pow10(k - 1)
\* the integer a run of digits denotes (0 for the empty run)
RECURSIVE DigitsVal(_)
DigitsVal(ds) ==
  IF ds = <<>> THEN 0
  ELSE 10 * DigitsVal(SubSeq(ds, 1, Len(ds) - 1)) + DigitVal(ds[Len(ds)])

\* String.prototype.trim, for the blanks of the model
RECURSIVE TrimLeft(_)
TrimLeft(v) == IF v # <<>> /\ v[1] = " " THEN TrimLeft(Tail(v)) ELSE v
RECURSIVE TrimRight(_)
TrimRight(v) ==
  IF v # <<>> /\ v[Len(v)] = " " THEN TrimRight(SubSeq(v, 1, Len(v) - 1)) ELSE v
Trim(v) == TrimRight(TrimLeft(v))

\* useLocationsData.js:15, v.replace(/\s*(km|KM)\s*$/u, "")
StripKm(v) ==
  LET t == TrimRight(v)
      n == Len(t)
  IN IF n >= 2 /\ (SubSeq(t, n - 1, n) = <<"k", "m">> \/ SubSeq(t, n - 1, n) = <<"K", "M">>)
       THEN TrimRight(SubSeq(t, 1, n - 2))
       ELSE v

Has(v, c) == \E i \in 1..Len(v) : v[i] = c
\* v.replace(/\./g, "")
RemoveAll(v, c) ==
  LET keep(x) == x # c
  IN SelectSeq(v, keep)
\* v.replace(",", "."): a string pattern replaces the first occurrence only
ReplaceFirst(v, c, by) ==
  IF Has(v, c)
    THEN LET i == CHOOSE j \in 1..Len(v) : v[j] = c /\ \A k \in 1..(j - 1) : v[k] # c
         IN [v EXCEPT ![i] = by]
    ELSE v
\* useLocationsData.js:19, v.replace(/(?<=\d),(?=\d{3}(?:\D|$))/g, ""): the
\* commas that follow a digit and precede exactly three digits
GroupComma(v, i) ==
  /\ v[i] = ","
  /\ i > 1 /\ IsDigit(v[i - 1])
  /\ i + 3 <= Len(v)
  /\ \A k \in (i + 1)..(i + 3) : IsDigit(v[k])
  /\ (i + 4 > Len(v) \/ ~IsDigit(v[i + 4]))
RECURSIVE StripGroupCommasFrom(_, _)
StripGroupCommasFrom(v, i) ==
  IF i > Len(v) THEN <<>>
  ELSE (IF GroupComma(v, i) THEN <<>> ELSE <<v[i]>>) \o StripGroupCommasFrom(v, i + 1)
StripGroupCommas(v) == StripGroupCommasFrom(v, 1)

\* useLocationsData.js:20, v.replace(/[^0-9.\-]/g, "")
KeepNumeric(v) ==
  LET keep(c) == IsDigit(c) \/ c = "." \/ c = "-"
  IN SelectSeq(v, keep)

\* useLocationsData.js:22-23, Number(v) of a text of digits, dots and minus
\* signs: an optional leading "-", digits with at most one dot and at least
\* one digit; anything else is NaN, which toNum turns into null
Number(v) ==
  LET neg == v # <<>> /\ v[1] = "-"
      body == IF neg THEN Tail(v) ELSE v
      dots == {i \in 1..Len(body) : body[i] = "."}
      ds == RemoveAll(body, ".")
  IN IF Has(body, "-") \/ Cardinality(dots) > 1 \/ ds = <<>>
       THEN NullNum
       ELSE Norm(Num(IF neg THEN 0 - DigitsVal(ds) ELSE DigitsVal(ds),
                     Pow10(IF dots = {} THEN 0 ELSE Len(body) - (CHOOSE i \in dots : TRUE))))

\* useLocationsData.js:16-19, the three-way separator rule
SeparatorRule(v) ==
  LET hasComma == Has(v, ",")
      hasDot == Has(v, ".")
  IN IF hasComma /\ hasDot THEN ReplaceFirst(RemoveAll(v, "."), ",", ".")
     ELSE IF hasComma /\ ~hasDot THEN ReplaceFirst(v, ",", ".")
     ELSE StripGroupCommas(v)

\* useLocationsData.js:12-24.  raw is a text, or NoText for null / undefined
NoText == <<"null">>
\* useLocationsData.js:21-23, applied to the cleaned text
NumberOrNull(v) ==
  IF v = <<>> \/ v = <<".">> \/ v = <<"-">> \/ v = <<"-", ".">>
    THEN NullNum
    ELSE Number(v)
toNum(raw) ==
  IF raw = NoText THEN NullNum
  ELSE NumberOrNull(KeepNumeric(SeparatorRule(StripKm(Trim(raw)))))

\* The texts toNum is called with: the examples of the numeric formats and
\* every text of at most MaxRawLen characters over NumAlphabet
NumAlphabet == {"1", "0", ",", ".", "-", " "}
NumExamples ==
  { <<"1", ".", "2", "3", "4", ",", "5", "6", " ", "k", "m">>,
    <<"1", ",", "2", "3", "4", ".", "5", "6">>,
    <<"1", "2", ",", "5">>,
    <<"1", ",", "2", "3", "4", ",", "5", "6", "7">>,
    <<"1", ",", "2", "3", "4">>,
    <<"2", " ", "K", "M">>,
    <<"a", "b", "c">>,
    NoText }
ToNumInputs == NumExamples \cup SeqsUpTo(NumAlphabet, MaxRawLen)

\* toNum(raw) is called and returns
CallToNum ==
  /\ ~numCall.done
  /\ numCall' = [numCall EXCEPT !.done = TRUE, !.out = toNum(numCall.raw)]
  /\ UNCHANGED <<fetchVars, rowCall, aoiCall, clipCall, hookVars>>

NumInit ==
  /\ FetchInit /\ HooksInit
  /\ numCall \in {[done |-> FALSE, raw |-> t, out |-> NullNum] : t \in ToNumInputs}
  /\ rowCall = NoCall /\ aoiCall = NoCall /\ clipCall = NoCall
NumSpec == NumInit /\ [][CallToNum]_vars

\* ---------------------------------------------------------------------------
\* Header matching and WTP row parsing (useLocationsData.js:26-148)
\* ---------------------------------------------------------------------------
\* A row is the sequence of its <<header, text>> cells in column order
\* (Object.keys order); a column the CSV lacks is no cell of the row.
\*
\* useLocationsData.js:26-33, normKey: the BOM is removed, the text trimmed
\* and lower-cased, every run of _ - . ( ) [ ] / : becomes one blank, every
\* run of blanks one blank (a blank left at the end stays).  The headers of
\* the model and their normal forms:
NormTable ==
  << <<"Latitude of W.T.P.", "latitude of w t p ">>, <<"latitude", "latitude">>,
     <<"lat", "lat">>, <<"Latitude", "latitude">>, <<"Y (Latitude)", "y latitude ">>,
     <<"Y", "y">>, <<"y", "y">>,
     <<"Longitude of W.T.P.", "longitude of w t p ">>, <<"longitude", "longitude">>,
     <<"lon", "lon">>, <<"lng", "lng">>, <<"Longitude", "longitude">>,
     <<"X (Longitude)", "x longitude ">>, <<"X", "x">>, <<"x", "x">>,
     <<"Plant Influence Radius (km)", "plant influence radius km ">>,
     <<"Coverage radius (km)", "coverage radius km ">>, <<"radius_km", "radius km">>,
     <<"Radius (km)", "radius km ">>, <<"radius", "radius">>,
     <<"W.T.P. Name", "w t p name">>, <<"WTP Name", "wtp name">>, <<"Name", "name">>,
     <<"Site", "site">>, <<"id", "id">>, <<"ID", "id">>,
     <<"Capacity (p.e.)", "capacity p e ">>, <<"Capacity", "capacity">>,
     <<"p.e.", "p e ">>, <<"PE", "pe">>,
     <<"Potenz. (A.E.)", "potenz a e ">>, <<"Potenz A.E.", "potenz a e ">>,
     <<"Potenz", "potenz">>, <<"AE", "ae">>,
     <<"Lat (deg)", "lat deg ">>, <<"Long (deg)", "long deg ">>,
     <<"Influence zone", "influence zone">>, <<"Population", "population">>,
     <<"Coordinates (Lat, Long)", "coordinates lat, long ">>,
     <<"Coordinates", "coordinates">>, <<"Coord", "coord">>,
     <<"Lat Long", "lat long">>, <<"Lat/Lon", "lat lon">>, <<"Lat, Lon", "lat, lon">>,
     <<"Name of public building or public space", "name of public building or public space">>,
     <<"Yearly presence/ capacity", "yearly presence capacity">>,
     <<"Yearly presence", "yearly presence">> >>
normKey(k) ==
  (CHOOSE e \in {NormTable[i] : i \in 1..Len(NormTable)} : e[1] = k)[2]

\* nk.includes(s), for the normal forms above and the substrings that
\* findNumberByHeaderContains is called with: the pairs for which it is true
IncludesTable ==
  { <<"latitude of w t p ", "lat">>, <<"latitude", "lat">>, <<"lat", "lat">>,
    <<"y latitude ", "lat">>, <<"lat deg ", "lat">>, <<"population", "lat">>,
    <<"lat deg ", "lat ">>, <<"y latitude ", " lat">>,
    <<"x longitude ", " lon">>, <<"lng", "lng">>,
    <<"longitude of w t p ", "long">>, <<"longitude", "long">>,
    <<"x longitude ", "long">>, <<"long deg ", "long">>,
    <<"longitude of w t p ", "longitude">>, <<"longitude", "longitude">>,
    <<"x longitude ", "longitude">>,
    <<"plant influence radius km ", "radius">>, <<"coverage radius km ", "radius">>,
    <<"radius km", "radius">>, <<"radius km ", "radius">>, <<"radius", "radius">>,
    <<"plant influence radius km ", "influence">>, <<"influence zone", "influence">>,
    <<"coverage radius km ", "coverage">> }
Includes(nk, s) == <<nk, s>> \in IncludesTable

\* useLocationsData.js:36-37, normMap: a later column with the same normal
\* form replaces an earlier one; 0 when no column has the normal form
NormMapGet(row, nk) ==
  LET hits == {i \in 1..Len(row) : normKey(row[i][1]) = nk}
  IN IF hits = {} THEN 0 ELSE CHOOSE i \in hits : \A j \in hits : j <= i

\* useLocationsData.js:38-46 and 52-60, the index of the cell of the first
\* candidate that names a column with a non-empty value; 0 if there is none
RECURSIVE PickIndex(_, _, _)
PickIndex(row, candidates, c) ==
  IF c > Len(candidates) THEN 0
  ELSE LET i == NormMapGet(row, normKey(candidates[c]))
       IN IF i # 0 /\ Trim(row[i][2]) # <<>> THEN i
          ELSE PickIndex(row, candidates, c + 1)

\* useLocationsData.js:35-47
pick(row, candidates) ==
  LET i == PickIndex(row, candidates, 1)
  IN IF i = 0 THEN NoText ELSE row[i][2]

\* useLocationsData.js:49-61; key "" stands for the null result
NoKeyValue == [key |-> "", value |-> NoText]
pickWithKey(row, candidates) ==
  LET i == PickIndex(row, candidates, 1)
  IN IF i = 0 THEN NoKeyValue ELSE [key |-> row[i][1], value |-> row[i][2]]

\* useLocationsData.js:63-72, the first column in column order whose normal
\* form contains one of the substrings and whose cell parses to a number
NoKeyNum == [key |-> "", value |-> NullNum]
\* useLocationsData.js:66-68, the test of one column: its number, null if
\* the header does not match or the cell is no number
NumberAt(cell, substrings) ==
  IF \E s \in substrings : Includes(normKey(cell[1]), s) THEN toNum(cell[2]) ELSE NullNum
FoundOr(cell, num, rest) == IF IsNull(num) THEN rest ELSE [key |-> cell[1], value |-> num]
RECURSIVE FindFrom(_, _, _)
FindFrom(row, substrings, i) ==
  IF i > Len(row) THEN NoKeyNum
  ELSE FoundOr(row[i], NumberAt(row[i], substrings), FindFrom(row, substrings, i + 1))
findNumberByHeaderContains(row, substrings) == FindFrom(row, substrings, 1)

\* the candidate lists of useLocationsData.js:77, 80, 88-89, 100-106, 115,
\* 125 and 126
LatCandidates == <<"Latitude of W.T.P.", "latitude", "lat", "Latitude", "Y (Latitude)", "Y">>
LonCandidates ==
  <<"Longitude of W.T.P.", "longitude", "lon", "lng", "Longitude", "X (Longitude)", "X">>
RadiusCandidates ==
  <<"Plant Influence Radius (km)", "Coverage radius (km)", "radius_km", "Radius (km)", "radius">>
NameCandidates == <<"W.T.P. Name", "WTP Name", "Name", "Site", "id", "ID">>
CapCandidates == <<"Capacity (p.e.)", "Capacity", "p.e.", "PE">>
PotCandidates == <<"Potenz. (A.E.)", "Potenz A.E.", "Potenz", "AE">>

\* useLocationsData.js:75-97; NoLL stands for the null result
LatLon(lat, lon) == [lat |-> lat, lon |-> lon]
NoLL == LatLon(NullNum, NullNum)
\* lines 82-96, from the values lines 76-89 compute (each is computed only
\* when the code reaches it)
LatLonFrom(latExplicit, lonExplicit, latFrom, lonFrom, yVal, xVal) ==
  IF ~IsNull(latExplicit) /\ ~IsNull(lonExplicit) THEN LatLon(latExplicit, lonExplicit)
  ELSE IF latFrom # NoKeyNum /\ lonFrom # NoKeyNum
    THEN LatLon(latFrom.value, lonFrom.value)
  ELSE IF ~IsNull(yVal) /\ ~IsNull(xVal) /\ AbsLeq(yVal, 90) /\ AbsLeq(xVal, 180)
    THEN LatLon(yVal, xVal)
  ELSE IF ~IsNull(yVal) /\ ~IsNull(xVal) /\ AbsLeq(xVal, 90) /\ AbsLeq(yVal, 180)
    THEN LatLon(xVal, yVal)
  ELSE NoLL
autoDetectLatLon(row) ==
  LatLonFrom(toNum(pick(row, LatCandidates)),
             toNum(pick(row, LonCandidates)),
             findNumberByHeaderContains(row, {" lat", "lat ", "lat"}),
             findNumberByHeaderContains(row, {" lon", "lng", "long", "longitude"}),
             toNum(pick(row, <<"Y", "y">>)),
             toNum(pick(row, <<"X", "x">>)))

\* useLocationsData.js:99-112
RadiusFrom(r, found) ==
  IF Positive(r) THEN r
  ELSE IF found # NoKeyNum /\ Positive(found.value) THEN found.value
  ELSE NullNum
detectRadiusKm(row) ==
  RadiusFrom(toNum(pick(row, RadiusCandidates)),
             findNumberByHeaderContains(row, {"radius", "influence", "coverage"}))

\* useLocationsData.js:114-116, pick(...) || ""
detectName(row) ==
  LET n == pick(row, NameCandidates)
  IN IF n = NoText THEN <<>> ELSE n

\* useLocationsData.js:118-148; NoSite stands for the null result
Site(lat, lon, r, name, peLabel, peValue) ==
  [lat |-> lat, lon |-> lon, radius_km |-> r, name |-> name,
   peLabel |-> peLabel, peValue |-> peValue]
NoSite == Site(NullNum, NullNum, NullNum, <<>>, "", NullNum)
\* useLocationsData.js:120-121
EffectiveRadius(detected, fallbackRadiusKm) ==
  IF IsNull(detected) \/ ~Positive(detected) THEN fallbackRadiusKm ELSE detected
\* lines 128-136, the production column: Capacity if it is numeric, else
\* Potenz if it is numeric, else none
NumericOr(kv, num, rest) ==
  IF kv # NoKeyValue /\ ~IsNull(num) THEN [key |-> kv.key, value |-> num] ELSE rest
ProductionOf(cap, pot) ==
  NumericOr(cap, toNum(cap.value), NumericOr(pot, toNum(pot.value), NoKeyNum))
\* lines 138-147
SiteFrom(ll, radius_km, name, pe) ==
  IF ll = NoLL \/ IsNull(radius_km) \/ ~Positive(radius_km) THEN NoSite
  ELSE Site(ll.lat, ll.lon, radius_km, name, pe.key, pe.value)
readWtpRow(row, fallbackRadiusKm) ==
  SiteFrom(autoDetectLatLon(row),
           EffectiveRadius(detectRadiusKm(row), fallbackRadiusKm),
           detectName(row),
           ProductionOf(pickWithKey(row, CapCandidates), pickWithKey(row, PotCandidates)))

\* The rows readWtpRow is called with.  A row of coordinate columns has each
\* of six columns absent (NoText) or holding one of a few texts; the radius
\* comes from a column or from the fallback.
T45 == <<"4", "5">>
T120 == <<"1", "2", "0">>
TNa == <<"n", "/", "a">>
CoordHeaders == <<"Latitude", "Longitude", "Lat (deg)", "Long (deg)", "Y", "X">>
CoordTexts ==
  [i \in 1..Len(CoordHeaders) |->
     IF i <= 2 THEN {NoText, T45, T120, TNa}
     ELSE IF i <= 4 THEN {NoText, T45, TNa}
     ELSE {NoText, T45, T120}]
CoordFills == {f \in [1..Len(CoordHeaders) -> {NoText, T45, T120, TNa}] :
                 \A i \in 1..Len(CoordHeaders) : f[i] \in CoordTexts[i]}
RECURSIVE CellsFrom(_, _)
CellsFrom(f, i) ==
  IF i > Len(CoordHeaders) THEN <<>>
  ELSE (IF f[i] = NoText THEN <<>> ELSE << <<CoordHeaders[i], f[i]>> >>) \o CellsFrom(f, i + 1)
\* the radius cells and the fallback radius that goes with them
RadiusCases ==
  { [cells |-> << <<"Radius (km)", <<"0">> >> >>, fallback |-> Num(0, 1)],
    [cells |-> << <<"Radius (km)", <<"2", " ", "k", "m">> >> >>, fallback |-> Num(10, 1)],
    [cells |-> << <<"Influence zone", <<"3">> >> >>, fallback |-> Num(0, 1)],
    [cells |-> <<>>, fallback |-> Num(10, 1)] }
RowExamples ==
  { [row |-> << <<"Name", <<"A">> >>, <<"Latitude", <<"4", "8", ",", "2">> >>,
                <<"Longitude", <<"1", "6", ".", "4">> >>,
                <<"Population", <<"9", "0", "0">> >>,
                <<"Capacity (p.e.)", <<"1", "2", "0", "0">> >> >>,
     fallback |-> Num(2, 1)],
    [row |-> << <<"Latitude", <<"2", "0", "0">> >>, <<"Longitude", <<"1", "6">> >>,
                <<"Potenz", <<"5", "0">> >>, <<"Capacity (p.e.)", <<"-">> >> >>,
     fallback |-> Num(2, 1)],
    [row |-> << <<"Latitude", <<"4", "8">> >>, <<"Longitude", <<"1", "6">> >>,
                <<"Radius (km)", <<"0">> >> >>,
     fallback |-> NullNum] }
RowInputs ==
  RowExamples \cup
  {[row |-> CellsFrom(f, 1) \o rc.cells, fallback |-> rc.fallback] :
     f \in CoordFills, rc \in RadiusCases}

\* readWtpRow(row, fallbackRadiusKm) is called and returns; ll is the result
\* of its call of autoDetectLatLon (line 119)
CallReadWtpRow ==
  /\ ~rowCall.done
  /\ rowCall' = [rowCall EXCEPT !.done = TRUE,
                                !.ll = autoDetectLatLon(rowCall.row),
                                !.out = readWtpRow(rowCall.row, rowCall.fallback)]
  /\ UNCHANGED <<fetchVars, numCall, aoiCall, clipCall, hookVars>>

RowInit ==
  /\ FetchInit /\ HooksInit
  /\ rowCall \in {[done |-> FALSE, row |-> i.row, fallback |-> i.fallback,
                   ll |-> NoLL, out |-> NoSite] : i \in RowInputs}
  /\ numCall = NoCall /\ aoiCall = NoCall /\ clipCall = NoCall
RowSpec == RowInit /\ [][CallReadWtpRow]_vars

\* ---------------------------------------------------------------------------
\* Public building rows (useLocationsData.js:293-354)
\* ---------------------------------------------------------------------------
\* useLocationsData.js:297, s.match(/-?\d+(?:[.,]\d+)?/g): the numeric tokens
\* of a text, left to right
RECURSIVE DigitRunEnd(_, _)
DigitRunEnd(s, i) ==
  IF i + 1 <= Len(s) /\ IsDigit(s[i + 1]) THEN DigitRunEnd(s, i + 1) ELSE i
RECURSIVE NumberTokens(_, _)
\* the end of the token whose integer part ends at e1: a separator and
\* digits after it belong to the token
TokenEnd(s, e1) ==
  IF e1 + 2 <= Len(s) /\ (s[e1 + 1] = "." \/ s[e1 + 1] = ",") /\ IsDigit(s[e1 + 2])
    THEN DigitRunEnd(s, e1 + 2)
    ELSE e1
NumberTokens(s, i) ==
  IF i > Len(s) THEN <<>>
  ELSE IF IsDigit(s[i])
    THEN <<SubSeq(s, i, TokenEnd(s, DigitRunEnd(s, i)))>>
           \o NumberTokens(s, TokenEnd(s, DigitRunEnd(s, i)) + 1)
  ELSE IF s[i] = "-" /\ i + 1 <= Len(s) /\ IsDigit(s[i + 1])
    THEN <<SubSeq(s, i, TokenEnd(s, DigitRunEnd(s, i + 1)))>>
           \o NumberTokens(s, TokenEnd(s, DigitRunEnd(s, i + 1)) + 1)
  ELSE NumberTokens(s, i + 1)

\* useLocationsData.js:294-318
\* lines 302-317, (lat, lon) assumed, swapped if that is out of range
PairFrom(n1, n2) ==
  IF IsNull(n1) \/ IsNull(n2) THEN NoLL
  ELSE IF AbsLeq(n1, 90) /\ AbsLeq(n2, 180) THEN LatLon(n1, n2)
  ELSE IF AbsLeq(n2, 90) /\ AbsLeq(n1, 180) THEN LatLon(n2, n1)
  ELSE NoLL
PairOfTokens(matches) ==
  IF Len(matches) < 2 THEN NoLL
  ELSE PairFrom(Number(ReplaceFirst(matches[1], ",", ".")),
                Number(ReplaceFirst(matches[2], ",", ".")))
parseLatLonFromCombined(value) ==
  IF value = NoText \/ value = <<>> THEN NoLL ELSE PairOfTokens(NumberTokens(value, 1))

\* useLocationsData.js:320-354; NoPoint stands for the null result
Point(lat, lon, name, waste) == [lat |-> lat, lon |-> lon, name |-> name, waste |-> waste]
NoPoint == Point(NullNum, NullNum, <<>>, NullNum)
\* lines 322-337, the separate columns, else the combined field
CoordsFrom(lat, lon, pair) ==
  IF (IsNull(lat) \/ IsNull(lon)) /\ pair # NoLL THEN pair ELSE LatLon(lat, lon)
\* lines 352-353
PointFrom(ll, name, waste) ==
  IF IsNull(ll.lat) \/ IsNull(ll.lon) THEN NoPoint ELSE Point(ll.lat, ll.lon, name, waste)
readPublicBuilding(row) ==
  PointFrom(
    CoordsFrom(toNum(pick(row, <<"Y (Latitude)", "Y", "Latitude", "lat">>)),
               toNum(pick(row, <<"X (Longitude)", "X", "Longitude", "lon", "lng">>)),
               parseLatLonFromCombined(
                 pick(row, <<"Coordinates (Lat, Long)", "Coordinates", "Coord",
                             "Lat Long", "Lat/Lon", "Lat, Lon">>))),
    LET name == pick(row, <<"Name of public building or public space", "Name", "Site", "id">>)
    IN IF name = NoText
         THEN <<"P", "u", "b", "l", "i", "c", " ", "B", "u", "i", "l", "d", "i", "n", "g">>
         ELSE name,
    toNum(pick(row, <<"Yearly presence/ capacity", "Yearly presence", "Capacity">>)))

\* ---------------------------------------------------------------------------
\* The CSV hooks (useLocationsData.js:156-185 and 356-376)
\* ---------------------------------------------------------------------------
\* utils/data.js: the CSV of the two location groups and of the buildings
LOCATION_CSVS == {"/locations/wtp-attica.csv", "/locations/wtp-campania.csv"}
PUBLIC_BUILDINGS_CSV == "/public-buildings.csv"
\* utils/data.js:7 and 13, defaultRadiusKm of both groups
DefaultRadiusKm == Num(10, 1)

\* the rows a CSV may hold: two valid site rows and one without longitude;
\* a valid building row and one without coordinates
WtpRowChoices ==
  { << <<"Latitude", T45>>, <<"Longitude", T120>>, <<"Radius (km)", <<"2", " ", "k", "m">> >> >>,
    << <<"Name", <<"B">> >>, <<"Y", T45>>, <<"X", T45>> >>,
    << <<"Name", <<"C">> >>, <<"Latitude", T45>> >> }
PublicRowChoices ==
  { << <<"Coordinates", <<"(", "1", "2", "0", ";", " ", "4", "5", ",", "5", ")">> >> >>,
    << <<"Name", <<"J">> >>, <<"Capacity", T120>> >> }
\* the result of readWtpRow(row, defaultRadiusKm) and of readPublicBuilding(row)
\* for each of these rows
WtpRecords == [row \in WtpRowChoices |-> readWtpRow(row, DefaultRadiusKm)]
PublicRecords == [row \in PublicRowChoices |-> readPublicBuilding(row)]

\* useLocationsData.js:173-175, (res.data || []).map(readWtpRow).filter(Boolean)
NormalizeWtp(data) ==
  SelectSeq([i \in 1..Len(data) |-> WtpRecords[data[i]]], LAMBDA r : r # NoSite)
\* useLocationsData.js:368, (res.data || []).map(readPublicBuilding).filter(Boolean)
NormalizePublic(data) ==
  SelectSeq([i \in 1..Len(data) |-> PublicRecords[data[i]]], LAMBDA r : r # NoPoint)

\* res.data of a finished download
WtpBatches == SeqsUpTo(WtpRowChoices, MaxBatch)
PublicBatches == SeqsUpTo(PublicRowChoices, MaxBatch)

\* useLocationsData.js:165, setError("")
ErrorAtRequest(error) == ""

\* useLocationsData.js:162-185, the csvUrl of useLocationGroup changes (the
\* route goes to another group, or to none): the effect returns early for no
\* url, else sets loading, clears the error and starts the download.  Nothing
\* cancels a download that is still in flight.
SetCsvUrl(url) ==
  /\ url # locGroup.csvUrl
  /\ url # "" => Len(loads) < MaxLoads
  /\ locGroup' = IF url = ""
                   THEN [locGroup EXCEPT !.csvUrl = url, !.last = "none"]
                   ELSE [locGroup EXCEPT !.csvUrl = url, !.loading = TRUE,
                                         !.error = ErrorAtRequest(locGroup.error),
                                         !.last = "request"]
  /\ loads' = IF url = "" THEN loads
              ELSE Append(loads, [hook |-> "useLocationGroup", url |-> url])
  /\ UNCHANGED <<fetchVars, callVars, pubBuildings>>

\* useLocationsData.js:359-374, usePublicBuildings is mounted with its
\* constant csvUrl (App.jsx:39) and starts its only download
MountPublicBuildings ==
  /\ pubBuildings.csvUrl = ""
  /\ Len(loads) < MaxLoads
  /\ pubBuildings' = [pubBuildings EXCEPT !.csvUrl = PUBLIC_BUILDINGS_CSV, !.last = "request"]
  /\ loads' = Append(loads, [hook |-> "usePublicBuildings", url |-> PUBLIC_BUILDINGS_CSV])
  /\ UNCHANGED <<fetchVars, callVars, locGroup>>

RemoveAt(q, i) == [j \in 1..(Len(q) - 1) |-> IF j < i THEN q[j] ELSE q[j + 1]]

\* useLocationsData.js:172-179, the complete callback of a download of
\* useLocationGroup, whichever download it is
CompleteWtp(i, data) ==
  /\ i \in 1..Len(loads)
  /\ loads[i].hook = "useLocationGroup"
  /\ LET normalized == NormalizeWtp(data)
     IN locGroup' = [locGroup EXCEPT
                       !.error = IF normalized = <<>>
                                   THEN "No valid rows found (lat/lon/radius missing)."
                                   ELSE locGroup.error,
                       !.rows = normalized,
                       !.loading = FALSE,
                       !.batch = data,
                       !.last = "complete"]
  /\ loads' = RemoveAt(loads, i)
  /\ UNCHANGED <<fetchVars, callVars, pubBuildings>>

\* useLocationsData.js:367-371, the complete callback of usePublicBuildings
CompletePublic(i, data) ==
  /\ i \in 1..Len(loads)
  /\ loads[i].hook = "usePublicBuildings"
  /\ LET pts == NormalizePublic(data)
     IN pubBuildings' = [pubBuildings EXCEPT
                           !.error = IF pts = <<>>
                                       THEN "No valid public building coordinates found."
                                       ELSE pubBuildings.error,
                           !.points = pts,
                           !.batch = data,
                           !.last = "complete"]
  /\ loads' = RemoveAt(loads, i)
  /\ UNCHANGED <<fetchVars, callVars, locGroup>>

\* useLocationsData.js:180-183 and 372, the error callback of a download
LoadError(i) ==
  /\ i \in 1..Len(loads)
  /\ IF loads[i].hook = "useLocationGroup"
       THEN /\ locGroup' = [locGroup EXCEPT !.error = "Failed to load CSV",
                                            !.loading = FALSE, !.last = "error"]
            /\ UNCHANGED pubBuildings
       ELSE /\ pubBuildings' = [pubBuildings EXCEPT
                                  !.error = "Failed to load public buildings",
                                  !.last = "error"]
            /\ UNCHANGED locGroup
  /\ loads' = RemoveAt(loads, i)
  /\ UNCHANGED <<fetchVars, callVars>>

LoadNext ==
  \/ \E url \in LOCATION_CSVS \cup {""} : SetCsvUrl(url)
  \/ MountPublicBuildings
  \/ \E i \in 1..MaxLoads, data \in WtpBatches : CompleteWtp(i, data)
  \/ \E i \in 1..MaxLoads, data \in PublicBatches : CompletePublic(i, data)
  \/ \E i \in 1..MaxLoads : LoadError(i)

LoadSpec == Init /\ [][LoadNext]_vars

\* ---------------------------------------------------------------------------
\* The AOI union chain (useLocationsData.js:224-250, the same in 419-446)
\* ---------------------------------------------------------------------------
\* What the geometry library does is an input of the chain: combine, buffer
\* and simplify each return or throw; a pairwise union returns a geometry,
\* returns null or throws.  unions[k] is the outcome of the union with circle
\* k + 1.
StepOutcomes == {"ok", "throws"}
UnionOutcomes == {"ok", "null", "throws"}
Thrown == [via |-> "throws", covers |-> {}]
NoGeometry == [via |-> "null", covers |-> {}]
\* the geometries the chain can produce, by the step that produced them and
\* the circles they cover
Circle(i) == [via |-> "circle", covers |-> {i}]
Simplified(n) == [via |-> "simplify", covers |-> 1..n]
United(covers) == [via |-> "union", covers |-> covers]
\* lines 228 and 427, turf.featureCollection(circles)
CirclesFC(n) == [via |-> "featureCollection", covers |-> 1..n]

\* lines 232-238, the body of the outer try
MergeAll(n, combine, buffer, simplify) ==
  IF n = 1 THEN Circle(1)
  ELSE IF combine = "throws" \/ buffer = "throws" \/ simplify = "throws" THEN Thrown
  ELSE Simplified(n)

\* lines 241-246, the body of the inner try from circle i on: a throw leaves
\* the loop, a null result keeps the accumulator
RECURSIVE PairwiseFrom(_, _, _, _)
PairwiseFrom(covers, unions, i, n) ==
  IF i > n THEN United(covers)
  ELSE IF unions[i - 1] = "throws" THEN Thrown
  ELSE IF unions[i - 1] = "ok" THEN PairwiseFrom(covers \cup {i}, unions, i + 1, n)
  ELSE PairwiseFrom(covers, unions, i + 1, n)

\* lines 239-249, the catch blocks
Unioned(merged, pairwise) ==
  IF merged # Thrown THEN merged
  ELSE IF pairwise # Thrown THEN pairwise
  ELSE NoGeometry

\* (mutant) no fallback to the collection of circles
UnionOrFC_NoFallback(unioned, circlesFC) == unioned
\* line 250, unioned || circlesFC
UnionOrFC(unioned, circlesFC) == IF unioned = NoGeometry THEN circlesFC ELSE unioned

\* lines 230-250: unionPolygon for n circles under the given outcomes
unionPolygon(n, combine, buffer, simplify, unions) ==
  UnionOrFC(Unioned(MergeAll(n, combine, buffer, simplify),
                    PairwiseFrom({1}, unions, 2, n)),
            CirclesFC(n))

\* a non-empty site sequence and the outcomes of the geometry operations
AoiInputs ==
  UNION {{[n |-> n, combine |-> c, buffer |-> b, simplify |-> s, unions |-> u] :
            c \in StepOutcomes, b \in StepOutcomes, s \in StepOutcomes,
            u \in [1..(n - 1) -> UnionOutcomes]} : n \in 1..MaxSites}

\* the useMemo of lines 194-277 computes unionPolygon for the rows held
CallUnionChain ==
  /\ ~aoiCall.done
  /\ aoiCall' = [aoiCall EXCEPT
                   !.done = TRUE,
                   !.out = unionPolygon(aoiCall.n, aoiCall.combine, aoiCall.buffer,
                                        aoiCall.simplify, aoiCall.unions)]
  /\ UNCHANGED <<fetchVars, numCall, rowCall, clipCall, hookVars>>

AoiInit ==
  /\ FetchInit /\ HooksInit
  /\ numCall = NoCall /\ rowCall = NoCall /\ clipCall = NoCall
  /\ \E inp \in AoiInputs :
       aoiCall = [done |-> FALSE, n |-> inp.n, combine |-> inp.combine,
                  buffer |-> inp.buffer, simplify |-> inp.simplify,
                  unions |-> inp.unions, out |-> NoGeometry]
AoiSpec == AoiInit /\ [][CallUnionChain]_vars

\* ---------------------------------------------------------------------------
\* One call of clipOne (LandUseMap.jsx:157-200)
\* ---------------------------------------------------------------------------
\* a collection of n circles (unionPolygon when every merge strategy failed)
CirclesRegion(n) == [type |-> "FeatureCollection", features |-> [i \in 1..n |-> i], bbox |-> 2]

\* what the geometry library answers for a parcel and a polygon AOI: the
\* pre-test, the intersection (made only after a positive pre-test) and the
\* centroid test
PolyAnswers ==
  {<<"yes", "piece">>, <<"yes", "null">>, <<"yes", "throws">>,
   <<"no", "null">>, <<"throws", "throws">>}
\* a parcel of area 6 clipped against the polygon AOI; the intersection, if
\* any, has area 2
PolyParcels ==
  {Parcel("farmland", "Polygon", 6, TRUE, a[1], a[2], 2, ct,
          <<>>, <<>>, "ok", 0, <<>>) :
     a \in PolyAnswers, ct \in {"in", "out", "throws"}}
\* the centroid tests against n circles: centroid() throws, or each circle
\* answers
CentroidAnswers(n) == {[i \in 1..n |-> "throws"]} \cup [1..n -> {"in", "out"}]
\* a parcel of area 6 clipped against n circles; the piece in circle i has
\* area i, the pieces do not overlap; a union of two pieces returns or throws
CircleParcels(n) ==
  {Parcel("orchard", "Polygon", 6, TRUE, "yes", "null", 0, "out",
          ci, [i \in 1..n |-> i], cu, 0, cc) :
     ci \in [1..n -> {"piece", "null", "throws"}], cu \in {"ok", "throws"},
     cc \in CentroidAnswers(n)}
ClipInputs ==
  {[p |-> p, region |-> PolyRegion] : p \in PolyParcels}
    \cup UNION {{[p |-> p, region |-> CirclesRegion(n)] : p \in CircleParcels(n)} :
                  n \in 1..MaxSites}

\* LandUseMap.jsx:206, clipOne(tf) for one feature of the answer
CallClipOne ==
  /\ ~clipCall.done
  /\ clipCall' = [clipCall EXCEPT !.done = TRUE,
                                  !.out = clipOne(clipCall.p, clipCall.region)]
  /\ UNCHANGED <<fetchVars, numCall, rowCall, aoiCall, hookVars>>

ClipInit ==
  /\ FetchInit /\ HooksInit
  /\ numCall = NoCall /\ rowCall = NoCall /\ aoiCall = NoCall
  /\ \E inp \in ClipInputs :
       clipCall = [done |-> FALSE, p |-> inp.p, region |-> inp.region, out |-> NoGeom]
ClipSpec == ClipInit /\ [][CallClipOne]_vars

\* ---------------------------------------------------------------------------
\* Properties
\* ---------------------------------------------------------------------------
Ended == {ended[i] : i \in 1..Len(ended)}
InFlight == {s \in Slots : cycles[s].pc # "idle"}
KeyCached(key) == \E i \in 1..Len(overpassCache) : overpassCache[i].key = key
ValueOf(key) ==
  (CHOOSE e \in {overpassCache[i] : i \in 1..Len(overpassCache)} : e.key = key).value

RECURSIVE SumArea(_, _)
SumArea(out, i) == IF i > Len(out) THEN 0 ELSE out[i].area + SumArea(out, i + 1)
RECURSIVE SumNum(_, _)
SumNum(out, i) == IF i > Len(out) THEN 0 ELSE out[i].fertilizer.num + SumNum(out, i + 1)

C2_AbortedCallRethrows ==
  /\ \A s \in InFlight : cycles[s].aborted => cycles[s].pc = "sleeping"
  /\ \A r \in Ended :
       r.aborted => /\ r.result = "aborted"
                    /\ r.gj = NoObj

\* C3 (as claimed): once the inputs have changed and the effect has re-run
\* and rescheduled, the predecessor is cancelled and delivers nothing to
\* onDataUpdate, neither a result nor a failure: no onDataUpdate call comes
\* from a cycle whose signal is aborted, or from one that a newer timer has
\* superseded and whose inputs are not the current ones.
C3_NoStaleDelivery ==
  \A r \in Ended :
    (~r.orphan /\ r.delivered # "none")
       => /\ ~r.aborted
          /\ ~(r.superseded /\ r.stale)

\* C4: a call that misses the cache, is never cancelled, fails 4 attempts and
\* succeeds on the 5th has sent exactly 5 requests, to endpoints 0,1,2,0,1 in
\* that order, has stored the geometry in the cache and returns it.
C4_FifthAttemptSucceeds ==
  \A r \in Ended :
    (r.result = "returned" /\ r.waits = 4)
      => /\ r.sent = <<0, 1, 2, 0, 1>>
         /\ r.attempt = 4
         /\ KeyCached(r.key)
         /\ ValueOf(r.key) = r.gj
         /\ r.gj # NoObj
C4_Witness ==
  \E r \in Ended : r.result = "returned" /\ r.waits = 4 /\ Len(r.sent) = 5

\* C5: no call sends more than 5 requests; a call that is not cancelled and
\* whose 5 attempts all fail ends as a permanent failure and leaves the cache
\* as it was; every call ends (returns, fails or is cancelled).
C5_AttemptsBounded ==
  /\ \A s \in InFlight : Len(cycles[s].sent) <= maxAttempts /\ cycles[s].attempt < maxAttempts
  /\ \A r \in Ended :
       /\ Len(r.sent) <= maxAttempts
       /\ (~r.aborted /\ r.waits = maxAttempts) => (r.result = "failed" /\ r.gj = NoObj)
       /\ (r.result = "failed") => (Len(r.sent) = maxAttempts /\ r.waits = maxAttempts)
C5_FailureLeavesCache ==
  (\E r \in {ended'[i] : i \in 1..Len(ended')} : r.result = "failed")
     => overpassCache' = overpassCache
C5_BoundedRetries ==
  /\ []C5_AttemptsBounded
  /\ [][C5_FailureLeavesCache]_vars
  /\ <>[](InFlight = {})
C5_Witness ==
  \E r \in Ended : r.result = "failed" /\ ~r.aborted /\ Len(r.sent) = 5 /\ overpassCache # <<>>

\* C6 (as claimed): a cycle that is not cancelled and whose fetch fails for
\* good, or whose clipping throws, calls onDataUpdate([]); a cancelled cycle
\* does not call onDataUpdate at all.
C6_FailureGivesEmpty ==
  \A r \in Ended :
    /\ (~r.aborted /\ r.result = "failed") => (r.delivered = "empty" /\ r.out = <<>>)
    /\ (~r.aborted /\ r.result \in {"hit", "returned"}
          /\ ClipAndAllocate(r.gj.features, r.inputs).threw)
         => (r.delivered = "empty" /\ r.out = <<>>)
    /\ r.aborted => r.delivered = "none"

\* C7: at most one debounce timer is pending; it is the one of the latest
\* effect run and carries the current inputs (every change cancels the timer
\* pending before it); a cycle starts only from that timer, with the inputs
\* of the last change, and leaves no timer pending.
C7_TimerState ==
  /\ Len(timers) <= 1
  /\ \A i \in 1..Len(timers) : timers[i].cur /\ timers[i].inputs = props
C7_StartFromLastChange ==
  (started' # started)
     => /\ Len(timers) = 1
        /\ timers' = <<>>
        /\ started' = started + 1
        /\ props' = props
        /\ \/ /\ abortRef' \in Slots
              /\ cycles'[abortRef'].pc = "fetching"
              /\ cycles'[abortRef'].sent = <<0>>
              /\ cycles'[abortRef'].inputs = props
           \/ /\ ended' # <<>>
              /\ ended'[Len(ended')].result = "hit"
              /\ ended'[Len(ended')].inputs = props
C7_SingleDebounceTimer == []C7_TimerState /\ [][C7_StartFromLastChange]_vars
C7_Witness ==
  /\ started >= 1
  /\ Len(timers) = 1
  /\ \E s \in InFlight : cycles[s].inputs # props

\* C8: of the cycles of the mounted consumer at most one is in flight with a
\* signal that is not aborted, and it is the one abortRef holds: the timer
\* callback aborts the previous controller before it sends its first request.
C8_OneLiveCycle ==
  /\ Cardinality({s \in InFlight : ~cycles[s].aborted /\ ~cycles[s].orphan}) <= 1
  /\ \A s \in InFlight : (~cycles[s].aborted /\ ~cycles[s].orphan) => abortRef = s
C8_Witness ==
  /\ \E s \in InFlight : cycles[s].aborted /\ ~cycles[s].orphan
  /\ \E s \in InFlight : ~cycles[s].aborted /\ ~cycles[s].orphan /\ cycles[s].sent # <<>>

\* C9: in every delivered parcel sequence, with a finite total and a positive
\* area sum each allocation is totalProduction * area / (sum of kept areas)
\* and the allocations sum to totalProduction; with a total that is not
\* finite (or an area sum of 0) every allocation is 0.
C9_Allocation ==
  \A r \in Ended :
    r.delivered = "data" =>
      LET total == r.inputs.totalProduction
          sum == SumArea(r.out, 1)
      IN IF IsFinite(total) /\ sum > 0
           THEN /\ \A k \in 1..Len(r.out) :
                     /\ r.out[k].fertilizer.den > 0
                     /\ r.out[k].fertilizer.num * sum
                          = total * r.out[k].area * r.out[k].fertilizer.den
                /\ \A k \in 1..Len(r.out) : r.out[k].fertilizer.den = r.out[1].fertilizer.den
                /\ SumNum(r.out, 1) = total * r.out[1].fertilizer.den
           ELSE \A k \in 1..Len(r.out) : r.out[k].fertilizer.num = 0
C9_Witness ==
  \E r \in Ended :
    /\ r.delivered = "data" /\ r.inputs.totalProduction = 400 /\ Len(r.out) = 2
    /\ r.out[1].area = 1 /\ r.out[1].fertilizer.num = 100 * r.out[1].fertilizer.den
    /\ r.out[2].area = 3 /\ r.out[2].fertilizer.num = 300 * r.out[2].fertilizer.den

\* C10: every parcel passed to onDataUpdate has a category that is enabled in
\* the toggles the cycle was issued with, a Polygon or MultiPolygon geometry
\* and an area > 0.
C10_KeptParcels ==
  \A r \in Ended :
    \A k \in 1..Len(r.out) :
      /\ r.out[k].landuse \in DOMAIN r.inputs.landuseToggles
      /\ r.inputs.landuseToggles[r.out[k].landuse]
      /\ r.out[k].gtype \in {"Polygon", "MultiPolygon"}
      /\ r.out[k].area > 0
C10_Witness ==
  \E r \in Ended :
    /\ r.delivered = "data" /\ r.out # <<>> /\ Len(r.out) < Len(r.gj.features)
    /\ r.inputs.landuseToggles # props.landuseToggles
    /\ \E k \in 1..Len(r.gj.features) :
         r.gj.features[k].landuse = "orchard" /\ ~r.inputs.landuseToggles["orchard"]
    /\ \E k \in 1..Len(r.gj.features) : r.gj.features[k].gtype = "LineString"
    /\ \E k \in 1..Len(r.gj.features) : r.gj.features[k].interArea = 0

\* C11 (as claimed): toNum parses "1.234,56 km" to 1234.56, "1,234.56" to
\* 1234.56 and "12,5" to 12.5.
C11_ToNumExamples ==
  numCall.done =>
    /\ (numCall.raw = <<"1", ".", "2", "3", "4", ",", "5", "6", " ", "k", "m">>)
          => NumEq(numCall.out, Num(123456, 100))
    /\ (numCall.raw = <<"1", ",", "2", "3", "4", ".", "5", "6">>)
          => NumEq(numCall.out, Num(123456, 100))
    /\ (numCall.raw = <<"1", "2", ",", "5">>)
          => NumEq(numCall.out, Num(125, 10))

\* a text of digit groups: one to three digits, then two or more groups of a
\* comma and three digits ("1,234,567")
DigitGroups(v) ==
  /\ Cardinality({i \in 1..Len(v) : v[i] = ","}) >= 2
  /\ \A i \in 1..Len(v) : IsDigit(v[i]) \/ v[i] = ","
  /\ \E k \in 1..3 :
       /\ (Len(v) - k) % 4 = 0
       /\ \A i \in 1..Len(v) : (v[i] = ",") <=> (i > k /\ (i - k) % 4 = 1)

\* C12 (as claimed): with a comma and a dot the dots are dropped and the
\* comma is the decimal point; a single comma and no dot is the decimal
\* point; commas between groups of three digits are dropped as thousands
\* separators; a cleaned text that is no finite number gives null.
C12_SeparatorRules ==
  (numCall.done /\ numCall.raw # NoText) =>
    LET v == StripKm(Trim(numCall.raw))
        commas == Cardinality({i \in 1..Len(v) : v[i] = ","})
    IN /\ (Has(v, ",") /\ Has(v, "."))
            => numCall.out = Number(KeepNumeric(ReplaceFirst(RemoveAll(v, "."), ",", ".")))
       /\ (commas = 1 /\ ~Has(v, "."))
            => numCall.out = Number(KeepNumeric(ReplaceFirst(v, ",", ".")))
       /\ DigitGroups(v)
            => NumEq(numCall.out, Num(DigitsVal(RemoveAll(v, ",")), 1))
       /\ (KeepNumeric(v) = <<>>) => IsNull(numCall.out)

\* the text of the column with the given header, NoText if the row lacks it
CellOf(row, header) ==
  IF \E i \in 1..Len(row) : row[i][1] = header
    THEN row[CHOOSE i \in 1..Len(row) : row[i][1] = header][2]
    ELSE NoText
HasCell(row, header) == \E i \in 1..Len(row) : row[i][1] = header

\* C13 (as claimed): every site record readWtpRow produces has lat in
\* [-90, 90], lon in [-180, 180] and radius_km > 0; a row whose lat, lon or
\* positive radius cannot be resolved produces no record.
C13_SiteRecordValid ==
  rowCall.done =>
    /\ (rowCall.out # NoSite)
         => /\ AbsLeq(rowCall.out.lat, 90)
            /\ AbsLeq(rowCall.out.lon, 180)
            /\ Positive(rowCall.out.radius_km)
    /\ (\/ rowCall.ll = NoLL
        \/ (IsNull(detectRadiusKm(rowCall.row)) /\ ~Positive(rowCall.fallback)))
         => rowCall.out = NoSite

\* the row has none of the given columns
LacksAll(row, headers) == \A i \in 1..Len(headers) : ~HasCell(row, headers[i])

\* C15 (as claimed): autoDetectLatLon resolves the coordinates in priority
\* order: the explicitly named latitude / longitude columns; then the columns
\* whose header contains a latitude / longitude substring, before the generic
\* X / Y columns; then the generic X / Y columns.  For a row whose only
\* coordinate columns are X and Y, both numeric, Y is the latitude when that
\* orientation is in range, the axes are swapped when it is not and the
\* swapped one is, so that |lat| <= 90 whenever one orientation is in range.
C15_LatLonPriority ==
  rowCall.done =>
    LET row == rowCall.row
        lat == toNum(CellOf(row, "Latitude"))
        lon == toNum(CellOf(row, "Longitude"))
        latSub == toNum(CellOf(row, "Lat (deg)"))
        lonSub == toNum(CellOf(row, "Long (deg)"))
        y == toNum(CellOf(row, "Y"))
        x == toNum(CellOf(row, "X"))
        aOk == AbsLeq(y, 90) /\ AbsLeq(x, 180)
        bOk == AbsLeq(x, 90) /\ AbsLeq(y, 180)
    IN /\ (~IsNull(lat) /\ ~IsNull(lon)) => rowCall.ll = LatLon(lat, lon)
       /\ (LacksAll(row, <<"Latitude", "Longitude">>) /\ ~IsNull(latSub) /\ ~IsNull(lonSub))
            => rowCall.ll = LatLon(latSub, lonSub)
       /\ (LacksAll(row, <<"Latitude", "Longitude", "Lat (deg)", "Long (deg)">>)
             /\ ~IsNull(y) /\ ~IsNull(x))
            => /\ aOk => rowCall.ll = LatLon(y, x)
               /\ (~aOk /\ bOk) => rowCall.ll = LatLon(x, y)
               /\ (aOk \/ bOk) => AbsLeq(rowCall.ll.lat, 90)

\* C14 (as claimed): when a batch has been parsed, the records held are those
\* of its valid rows in batch order, the invalid rows being dropped; the
\* error state is set exactly when no record results, and it is empty
\* whenever a row of the latest batch was valid.
C14_BatchErrorState ==
  /\ locGroup.last = "complete"
       => /\ locGroup.rows = NormalizeWtp(locGroup.batch)
          /\ (locGroup.error # "") <=> (locGroup.rows = <<>>)
  /\ pubBuildings.last = "complete"
       => /\ pubBuildings.points = NormalizePublic(pubBuildings.batch)
          /\ (pubBuildings.error # "") <=> (pubBuildings.points = <<>>)

\* the outer try of the union chain threw: more than one circle, and combine,
\* buffer or simplify failed
MergeFailed(c) ==
  c.n > 1 /\ (c.combine = "throws" \/ c.buffer = "throws" \/ c.simplify = "throws")
\* some pairwise union of the fallback threw
UnionFailed(c) == \E k \in 1..(c.n - 1) : c.unions[k] = "throws"

\* C16: the AOI union of a non-empty site sequence is never null and is the
\* result of the first strategy that succeeds, in the order single circle,
\* combine + buffer + simplify, pairwise union, raw collection of circles;
\* when every merge strategy fails it is exactly the raw collection.
C16_FirstSuccessKept ==
  aoiCall.done =>
    /\ aoiCall.out # NoGeometry /\ aoiCall.out # Thrown
    /\ aoiCall.n = 1 => aoiCall.out = Circle(1)
    /\ (aoiCall.n > 1 /\ ~MergeFailed(aoiCall)) => aoiCall.out = Simplified(aoiCall.n)
    /\ (MergeFailed(aoiCall) /\ ~UnionFailed(aoiCall)) => aoiCall.out.via = "union"
    /\ (MergeFailed(aoiCall) /\ UnionFailed(aoiCall)) => aoiCall.out = CirclesFC(aoiCall.n)

\* every merge strategy has failed and the raw collection is the AOI
C16_Witness ==
  /\ aoiCall.done
  /\ MergeFailed(aoiCall) /\ UnionFailed(aoiCall)
  /\ aoiCall.out = CirclesFC(aoiCall.n)

\* C17 (as claimed): when the pairwise fallback runs, a union that fails is
\* skipped and the accumulator kept, so the AOI is the pairwise result and
\* covers the first circle and every circle whose union succeeded.
C17_PairwiseSkipsFailures ==
  (aoiCall.done /\ MergeFailed(aoiCall)) =>
    /\ aoiCall.out.via = "union"
    /\ aoiCall.out.covers = {1} \cup {k + 1 : k \in {j \in 1..(aoiCall.n - 1) : aoiCall.unions[j] = "ok"}}

\* the circles of the AOI with which the parcel has a non-empty intersection
Pieces(p, region) ==
  {i \in 1..Len(region.features) : p.cInter[region.features[i]] = "piece"}
RECURSIVE PieceArea(_, _)
PieceArea(p, S) ==
  IF S = {} THEN 0
  ELSE LET i == CHOOSE j \in S : TRUE IN p.cArea[i] + PieceArea(p, S \ {i})
\* the centroid of the parcel lies in some circle of the AOI
CentroidInCircle(p, region) ==
  \E i \in 1..Len(region.features) : p.cCtr[region.features[i]] = "in"

\* C18: against a polygon AOI clipOne returns the exact intersection when
\* there is one; when there is none or the intersection throws, it returns
\* the unclipped parcel if and only if the centroid of the parcel lies in
\* the AOI, and null otherwise.
C18_ClipPolygon ==
  (clipCall.done /\ clipCall.region = PolyRegion) =>
    /\ clipCall.p.inter = "piece"
         => clipCall.out = Geom("Polygon", clipCall.p.interArea, clipCall.p.areaOk, "inter")
    /\ (clipCall.p.inter # "piece" /\ clipCall.p.ctr = "in")
         => clipCall.out = Whole(clipCall.p)
    /\ (clipCall.p.inter # "piece" /\ clipCall.p.ctr # "in")
         => clipCall.out = NoGeom

\* the intersection threw and the parcel was kept whole by its centroid
C18_Witness ==
  /\ clipCall.done /\ clipCall.region = PolyRegion
  /\ clipCall.p.inter = "throws" /\ clipCall.p.ctr = "in"
  /\ clipCall.out = Whole(clipCall.p)

C20_CacheOnlyGrows ==
  [][/\ \A r \in Ended' :
          r.result = "returned" => (KeyCached(r.key) /\ ValueOf(r.key) = r.gj)'
     /\ \A i \in 1..Len(overpassCache) :
          /\ i <= Len(overpassCache')
          /\ overpassCache'[i] = overpassCache[i]]_vars

\* C21: the failed attempt with 0-based index k of a call that is not
\* cancelled is followed by a wait in [base, base + 500) ms, where base is
\* 2000, 4000, 8000, 12000, 12000 for k = 0..4, and advances the endpoint
\* index by exactly one.
C21_BackoffWait ==
  [][\A s \in Slots :
       (cycles[s].pc \in {"fetching", "reading"} /\ cycles'[s].pc = "sleeping")
         => LET k == cycles[s].attempt
                base == <<2000, 4000, 8000, 12000, 12000>>[k + 1]
            IN /\ k \in 0..4
               /\ ~cycles[s].aborted
               /\ lastWait' >= base /\ lastWait' < base + 500
               /\ cycles'[s].endpointIdx = cycles[s].endpointIdx + 1
               /\ cycles'[s].endpointIdx = k + 1]_vars

\* the fourth attempt has failed: the wait is the capped 12000 ms plus the
\* largest jitter, the endpoint index is 4
C21_Witness ==
  \E s \in Slots :
    /\ cycles[s].pc = "sleeping" /\ ~cycles[s].aborted
    /\ cycles[s].attempt = 3 /\ cycles[s].endpointIdx = 4
    /\ lastWait = 12499

\* C22: within one call the attempt with 0-based index k is sent to endpoint
\* k mod 3 of the 3-entry list; every call starts at the first endpoint,
\* whatever endpoints earlier calls used.
C22_EndpointRotation ==
  /\ Len(OVERPASS_ENDPOINTS) = 3
  /\ \A s \in InFlight :
       /\ \A i \in 1..Len(cycles[s].sent) : cycles[s].sent[i] = (i - 1) % 3
       /\ cycles[s].pc \in {"fetching", "reading"}
            => Len(cycles[s].sent) = cycles[s].attempt + 1
  /\ \A r \in Ended :
       \A i \in 1..Len(r.sent) : r.sent[i] = (i - 1) % 3

\* a new call has sent its first request to the first endpoint while the
\* call before it had moved on to another endpoint
C22_Witness ==
  \E s \in Slots, t \in Slots :
    /\ s # t
    /\ cycles[s].pc = "sleeping" /\ cycles[s].endpointIdx = 2
    /\ cycles[t].pc = "fetching" /\ cycles[t].sent = <<0>>

\* C23 (as claimed): the completion of a load of useLocationGroup whose CSV
\* is no longer the one requested leaves the rows, the error and the loading
\* state as they are.
C23_StaleLoadIgnored ==
  [][\A i \in 1..Len(loads) :
       (/\ loads[i].hook = "useLocationGroup"
        /\ loads[i].url # locGroup.csvUrl
        /\ loads' = RemoveAt(loads, i))
         => /\ locGroup'.rows = locGroup.rows
            /\ locGroup'.error = locGroup.error
            /\ locGroup'.loading = locGroup.loading]_vars

\* C24: in a call that is not cancelled every failed attempt, the fifth
\* included, is followed by one backoff wait: the waits begun equal the
\* failed attempts, and a permanent failure is raised only after 5 waits.
C24_WaitAfterEveryFailure ==
  /\ \A s \in InFlight :
       ~cycles[s].aborted =>
         /\ cycles[s].pc \in {"fetching", "reading"}
              => cycles[s].waits = Len(cycles[s].sent) - 1
         /\ cycles[s].pc = "sleeping" => cycles[s].waits = Len(cycles[s].sent)
  /\ \A r \in Ended :
       /\ r.result = "failed" => (r.waits = 5 /\ Len(r.sent) = 5)
       /\ r.result = "returned" => r.waits = Len(r.sent) - 1

\* a call that was never cancelled has failed for good after 5 requests and
\* 5 waits
C24_Witness ==
  \E r \in Ended :
    /\ r.result = "failed" /\ ~r.aborted
    /\ r.waits = 5 /\ r.sent = <<0, 1, 2, 0, 1>>

====
